---- MODULE Spec2Model ----
(***************************************************************************)
(* Curation state machine of spsdaily: scripts/telegram_curator.py ("v1")  *)
(* and scripts/telegram_curator_v2.py ("v2").  Both scripts read and write *)
(* the same articles.json (the published feed), pending_articles.json (the *)
(* pending store) and the archive table of data/articles.db.               *)
(*                                                                         *)
(* An article is the dict the curators move around.  Only the keys the     *)
(* handlers read or write are kept: url (the identity) and approvedDate    *)
(* (written by v2 only; NoDate stands for "key absent").  Dates are day    *)
(* numbers: the code compares ISO date strings, whose order is the order   *)
(* of the days.                                                            *)
(*                                                                         *)
(* The collector, scripts/feed_collector.py, has its own specification,    *)
(* CollectorSpec: a run fetches the listings, drops entries by age and by  *)
(* headline, filters the rest against the seen-ledger (table seen_articles *)
(* of data/articles.db), selects and stages them in the pending store.     *)
(* There an article keeps the keys headline, source, url and published.    *)
(*                                                                         *)
(* Further specifications take one part of the program each: ReviewSpec    *)
(* adds the /review command to the collector, PollSpec and PollLiveSpec    *)
(* are the polling loop of run_curator, PublishSpec adds v1's /publish     *)
(* command, SelectSpec runs select_articles on the articles that came      *)
(* through main's filter.                                                  *)
(***************************************************************************)
EXTENDS Integers, Sequences, FiniteSets, TLC

VARIABLES
    curator,      \* which script handles the callbacks of this run: "v1" or "v2"
    today,        \* date.today()
    pending,      \* pending_articles.json: category -> list of candidates
    live,         \* articles.json: category -> live list
    editorsPick,  \* articles.json["editorsPick"]
    lastUpdated,  \* articles.json["lastUpdated"]
    archive,      \* archive table: url -> [category, approved_date]
    result,       \* what handle_callback returned, until run_curator has
                  \* answered the callback; NoResult while it polls
    lastCall,     \* the callback handled last, when it was an approve of a
                  \* pending article: its category and index, and, until it
                  \* is answered, whether it repeated the callback before it;
                  \* else NoCall
    pickSetBy,    \* the callbacks ("approve", "pick") that have set the
                  \* editor's pick during the current day
    startedEmpty, \* TRUE iff the run began with an empty feed and archive
    acted,        \* the callback whose approve, reject or pick branch ran,
                  \* until it is answered: action, category, index
    ledger,       \* table seen_articles: a set of rows
    runs,         \* collector runs started so far; the clock of first_seen
    phase,        \* where the collector's main() stands; "idle" between runs
    listing,      \* collect_all_feeds: position in Listings being fetched
    fetched,      \* entries the listings have returned in this run
    seenHeadlines,\* collect_all_feeds: seen_headlines
    candidates,   \* collect_all_feeds: candidates (= all_articles)
    newArticles,  \* main: new_articles
    selected,     \* main: selected
    pendingData,  \* main: pending_data, the store being built
    stagedBefore, \* urls that earlier runs wrote to the pending store
    lastMark,     \* the arguments of the last call of mark_article_seen
    failed,       \* collect_all_feeds: the listings whose fetch raised while
                  \* the run collects
    torn,         \* TRUE while articles.json is open for writing and its old
                  \* content is gone: a reader finds it empty or cut short
    loaded,       \* per curator process: the callback it handles and the
                  \* feed it has loaded from articles.json; NoLoad when it
                  \* handles none
    rawText,      \* truncate_teaser: the argument text, a sequence of
                  \* characters
    maxLen,       \* truncate_teaser: the argument max_len
    teaser,       \* truncate_teaser: what the call returned; NoTeaser before
    depthCategory,\* depth gate: the category whose candidates it handles
    scored,       \* depth gate: the category's candidates with their base
                  \* scores and the word counts the collaborator measures
    depthOut,     \* depth gate: what it hands to the pending store;
                  \* NoDepthOut before
    sent,         \* the review messages in the Telegram chat: the callback
                  \* data of their buttons, the article they show and the
                  \* collector run that sent them
    selectArgs,   \* select_articles: one category's articles and
                  \* per_category
    selectOut,    \* select_articles: the picks it returned for the
                  \* category; NoSelectOut before
    updates,      \* the updates Telegram has received for the bot, in the
                  \* order of their update_id (1, 2, ...)
    offset,       \* run_curator: offset; NoOffset for None
    batch,        \* run_curator: the update_ids of updates["result"] the
                  \* for loop has not reached yet
    current,      \* run_curator: the update_id the loop body is handling;
                  \* NoUpdate between two updates
    handledTimes, \* per update_id: how many times the loop body has begun
                  \* to handle the update
    approvedFile  \* approved_articles.json as load_approved returns it

vars == <<curator, today, pending, live, editorsPick, lastUpdated, archive,
          result, lastCall, pickSetBy, startedEmpty, acted,
          ledger, runs, phase, listing, fetched, seenHeadlines, candidates,
          newArticles, selected, pendingData, stagedBefore, lastMark,
          failed, torn, loaded, rawText, maxLen, teaser,
          depthCategory, scored, depthOut, sent, selectArgs, selectOut,
          updates, offset, batch, current, handledTimes, approvedFile>>

\* the state of the curators
curatorVars == <<curator, today, live, editorsPick, lastUpdated, archive,
                 result, lastCall, pickSetBy, startedEmpty, acted>>

\* the state of the collector, the pending store aside
collectorVars == <<ledger, runs, phase, listing, fetched, seenHeadlines,
                   candidates, newArticles, selected, pendingData,
                   stagedBefore, lastMark, failed>>

\* articles.json as a file and the processes that have it loaded
fileVars == <<torn, loaded>>

\* the arguments and the result of the text functions
textVars == <<rawText, maxLen, teaser>>

\* the input and the output of the depth gate
depthVars == <<depthCategory, scored, depthOut>>

\* the arguments and the result of select_articles
selectVars == <<selectArgs, selectOut>>

pureVars == <<textVars, depthVars, selectVars>>

\* the chat the collector and the curators send review messages to
chatVars == <<sent>>

\* the polling loop of run_curator
pollVars == <<updates, offset, batch, current, handledTimes>>

\* what /publish reads
publishVars == <<approvedFile>>

\* the chat, the polling loop and the file of /publish
loopVars == <<chatVars, pollVars, publishVars>>

\* what no callback and no step of a collector run touches
quietVars == <<fileVars, pureVars, pollVars, publishVars>>

\* what neither the curators' callbacks nor the collector's run touch, the
\* chat aside, which only the staging of an article adds to
sideVars == <<quietVars, chatVars>>

feed == <<live, editorsPick, lastUpdated>>

----------------------------------------------------------------------------
\* Program constants

\* live-list cap of telegram_curator.py
LiveCap == 15

\* retention window of cleanup_old_articles, in days
RetentionDays == 7

----------------------------------------------------------------------------
\* Bounds of the model

\* science candidates in the pending store
NumCand == 2

\* how many times the calendar day may advance
MaxDays == 1

\* entries the listings return in one collector run
MaxEntries == 2

\* collector runs
MaxRuns == 2

\* characters of a text given to truncate_teaser
MaxText == 5

\* candidates of one category that reach the staging selector
MaxScored == 3

\* articles of one category that collect_all_feeds hands to main
MaxArticles == 3

\* updates Telegram receives for the bot
MaxUpdates == 3

\* how many times the loop may begin to handle one update
MaxHandled == 2

----------------------------------------------------------------------------
\* Values

Categories == {"science", "philosophy"}

\* a category no pending store has
UnknownCategory == "unknown"

NoDate == 0

\* editorsPick: None
NoPick == [url |-> 0, approvedDate |-> NoDate]

\* the first day of a run; late enough for the cleanup cutoff to be a day
StartDay == RetentionDays + 2

LastDay == StartDay + MaxDays

\* how many candidates the collector staged per category: the run's new
\* articles are all science; the collector writes the other lists empty
PendingLen(c) == IF c = "science" THEN NumCand ELSE 0

CatBase(c) == IF c = "science" THEN 0 ELSE NumCand

\* k-th candidate of category c as the collector stages it (no approvedDate)
Candidate(c, k) == [url |-> CatBase(c) + k, approvedDate |-> NoDate]

FillerBase(c) == IF c = "science" THEN 100 ELSE 200

\* articles that are live when the run begins, most recent first: the two
\* oldest are past the retention window, the others carry no date (approved
\* through v1) or yesterday's date (approved through v2)
Filler(c, k) ==
    [url |-> FillerBase(c) + k,
     approvedDate |-> IF k > LiveCap - 2 THEN StartDay - RetentionDays - 1
                      ELSE IF k % 2 = 0 THEN NoDate ELSE StartDay - 1]

Fillers(c) == [k \in 1..LiveCap |-> Filler(c, k)]

----------------------------------------------------------------------------
\* Helpers of handle_callback

\* Python's list indexing: a negative index counts from the end
InRange(list, index) == -Len(list) <= index /\ index < Len(list)

PyIndex(list, index) ==
    IF index >= 0 THEN list[index + 1] ELSE list[Len(list) + index + 1]

\* the guard of handle_callback, negated:
\*   if category not in pending or index >= len(pending[category]): not found
Found(category, index) ==
    /\ category \in DOMAIN pending
    /\ index < Len(pending[category])

Urls(list) == {list[k].url : k \in DOMAIN list}

\* faulty variant: v2 testing membership the way v1 does, on whole dicts
V2ContainsWholeDict(list, article) == \E k \in DOMAIN list : list[k] = article

\* v1: "article in live_articles[category]" compares whole dicts
V1Contains(list, article) == \E k \in DOMAIN list : list[k] = article

\* v2: article['url'] in {a.get('url') for a in live_articles[category]}
V2Contains(list, article) == article.url \in Urls(list)

\* faulty variant: the article appended at the end
InsertBack(list, article) == list \o <<article>>

\* list.insert(0, article)
InsertFront(list, article) == <<article>> \o list

\* faulty variant: the cap applied one article too late
V1CapOffByOne(list) ==
    IF Len(list) > LiveCap + 1 THEN SubSeq(list, 1, LiveCap) ELSE list

\* v1: if len(list) > 15: list = list[:15]
V1Cap(list) == IF Len(list) > LiveCap THEN SubSeq(list, 1, LiveCap) ELSE list

\* faulty variant: the first article goes when no entry has the url
RemoveUrlOrHead(list, url) ==
    IF \E k \in DOMAIN list : list[k].url = url
    THEN SelectSeq(list, LAMBDA a : a.url # url)
    ELSE IF list = <<>> THEN list ELSE Tail(list)

\* faulty variant: only the first entry with the url goes
RemoveFirstUrl(list, url) ==
    IF \E k \in DOMAIN list : list[k].url = url
    THEN LET first == CHOOSE k \in DOMAIN list :
                        /\ list[k].url = url
                        /\ \A m \in 1..(k - 1) : list[m].url # url
         IN SubSeq(list, 1, first - 1) \o SubSeq(list, first + 1, Len(list))
    ELSE list

\* [a for a in list if a.get('url') != article.get('url')]
RemoveUrl(list, url) == SelectSeq(list, LAMBDA a : a.url # url)

\* article['approvedDate'] = date.today().isoformat()
Stamp(article, day) == [article EXCEPT !.approvedDate = day]

\* faulty variant: freshness judged by the date alone
V1PickFreshByDate(updated, pick, day) == updated = day

\* faulty variant: the test on the pick inverted
V2PickStaleInverted(updated, pick, day) == updated # day \/ pick # NoPick

\* faulty variant: the insert overwrites the table
AddToArchiveOverwrites(arch, article, category, day) ==
    [u \in {article.url} |-> [category |-> category, approved_date |-> day]]

\* faulty variant: the insert is never committed
AddToArchiveLost(arch, article, category, day) == arch

\* v1: current_pick_fresh =
\*       live.get("lastUpdated") == today and live.get("editorsPick")
V1PickFresh(updated, pick, day) == updated = day /\ pick # NoPick

\* v2 replaces the pick when
\*       live.get("lastUpdated") != today or not live.get("editorsPick")
V2PickStale(updated, pick, day) == updated # day \/ pick = NoPick

\* INSERT OR REPLACE INTO archive (url UNIQUE, ..., category, approved_date)
\* with approved_date = date.today(): a row with the same url is deleted and
\* the new row takes its place
V1AddToArchive(arch, article, category, day) ==
    [u \in DOMAIN arch \cup {article.url} |->
        IF u = article.url
        THEN [category |-> category, approved_date |-> day]
        ELSE arch[u]]

\* the same statement in v2 (its extra word_count column is not modelled)
V2AddToArchive(arch, article, category, day) ==
    [u \in DOMAIN arch \cup {article.url} |->
        IF u = article.url
        THEN [category |-> category, approved_date |-> day]
        ELSE arch[u]]

\* faulty variant: the error of the failed git command is not caught
PushTextRaises(ok) == IF ok THEN "pushed" ELSE "exception"

\* git_push(): True, or False on CalledProcessError; the outcome is the
\* environment's
PushText(ok) == IF ok THEN "pushed" ELSE "push pending"

Returned(kind, push) == [kind |-> kind, push |-> push]

\* run_curator is between two updates
NoResult == Returned("none", "none")

\* faulty variant: an article without approvedDate is judged by date too
CleanupKeepsDated(article, cutoff) == article.approvedDate >= cutoff

\* cleanup_old_articles keeps: not a.get('approvedDate') or date >= cutoff
CleanupKeeps(article, cutoff) ==
    article.approvedDate = NoDate \/ article.approvedDate >= cutoff

CleanupList(list, cutoff) == SelectSeq(list, LAMBDA a : CleanupKeeps(a, cutoff))

\* cleanup_old_articles: removed += original_count - len(live_articles[
\* category]) over the categories; the value it returns
RECURSIVE CleanupRemoved(_, _, _)
CleanupRemoved(lists, cutoff, categories) ==
    IF categories = {} THEN 0
    ELSE LET c == CHOOSE d \in categories : TRUE
         IN Len(lists[c]) - Len(CleanupList(lists[c], cutoff))
                + CleanupRemoved(lists, cutoff, categories \ {c})

----------------------------------------------------------------------------
\* The collector's values

\* fetch_feed(name, url, max_age_days=7)
MaxAgeDays == 7

\* main: select_articles(new_articles, per_category=50)
PerCategory == 50

\* the listings in the order collect_all_feeds reads them: the feeds of FEEDS
\* by category (one feed each here), then Hacker News
Listings == <<"Scientific American", "Aeon", "Hacker News">>

\* the category a listing's entries are collected under
ListingCategory(name) == IF name = "Aeon" THEN "philosophy" ELSE "science"

\* urls the listings may return
FeedUrls == {1, 2}

\* headlines the listings may return
Headlines == {"Quantum Minds", "QUANTUM MINDS ", "On Truth"}

\* clean_html on a title: tags and entities removed, whitespace collapsed
\* and stripped
CleanHtml(text) == IF text = "QUANTUM MINDS " THEN "QUANTUM MINDS" ELSE text

\* headline.lower().strip()
Lower(headline) ==
    IF headline \in {"QUANTUM MINDS ", "QUANTUM MINDS", "Quantum Minds"}
    THEN "quantum minds" ELSE "on truth"

\* an entry as a listing returns it; published is a day, NoDate for an entry
\* without published_parsed and updated_parsed
Entry(name, url, headline, published) ==
    [listing |-> name, url |-> url, headline |-> headline,
     published |-> published]

\* publication days: none, before the cutoff, inside the window
PublishedDays == {NoDate, StartDay - MaxAgeDays - 1, StartDay - 1}

\* the article dict fetch_feed and fetch_hacker_news build from an entry
FeedArticle(e) ==
    [headline |-> IF e.listing = "Hacker News" THEN e.headline
                  ELSE CleanHtml(e.headline),
     source |-> e.listing, url |-> e.url, published |-> e.published]

\* the curator processes that may run side by side on one articles.json
Processes == {"first", "second"}

\* what json.load(open(ARTICLES_FILE)) returns
Feed(lists, pick, updated) ==
    [live |-> lists, editorsPick |-> pick, lastUpdated |-> updated]

\* a process that handles no callback
NoLoad ==
    [action |-> "", category |-> "", index |-> 0, opened |-> FALSE,
     feed |-> Feed([c \in Categories |-> <<>>], NoPick, NoDate)]

\* articles.json is whole and no process handles a callback
\* no review message has been sent
ChatIdle == sent = {}

\* select_articles has not been called
NoSelectOut == [ran |-> FALSE, new |-> <<>>, picks |-> <<>>]

\* no call of select_articles on its own is modelled
SelectIdle ==
    /\ selectArgs = [articles |-> <<>>, perCategory |-> 0]
    /\ selectOut = NoSelectOut

\* run_curator: offset = None
NoOffset == 0

\* no update is being handled
NoUpdate == 0

\* Telegram has no update for the bot and the loop polls
PollIdle ==
    /\ updates = <<>>
    /\ offset = NoOffset
    /\ batch = <<>>
    /\ current = NoUpdate
    /\ handledTimes = <<>>

\* load_approved when approved_articles.json does not exist
NoApproved == [editorsPick |-> NoPick, lists |-> [c \in Categories |-> <<>>]]

\* approved_articles.json does not exist
PublishIdle == approvedFile = NoApproved

FileIdle ==
    /\ torn = FALSE
    /\ loaded = [p \in Processes |-> NoLoad]

\* truncate_teaser has not returned
NoTeaser == <<"unset">>

\* no call of truncate_teaser is modelled
TextIdle ==
    /\ rawText = <<>>
    /\ maxLen = 0
    /\ teaser = NoTeaser

\* the depth gate has not run
NoDepthOut == [ran |-> FALSE, kept |-> <<>>]

\* no run of the depth gate is modelled
DepthIdle ==
    /\ depthCategory = ""
    /\ scored = <<>>
    /\ depthOut = NoDepthOut

\* no call of mark_article_seen yet
NoMark == [url |-> 0, headline |-> "", category |-> ""]

\* all_articles / pending_data with every category empty
NoArticles == [c \in Categories |-> <<>>]

\* the collector between two runs
CollectorIdle ==
    /\ phase = "idle"
    /\ listing = 0
    /\ fetched = 0
    /\ seenHeadlines = {}
    /\ candidates = NoArticles
    /\ newArticles = NoArticles
    /\ selected = NoArticles
    /\ pendingData = NoArticles

----------------------------------------------------------------------------
\* Initial states

\* the live list of category c when the run begins, empty when n = 0:
\* science holds n articles, headed, when stamped, by candidate 1 as v2 wrote
\* it the day before; philosophy holds its three oldest articles
InitList(c, n, stamped) ==
    IF c = "science"
    THEN IF stamped
         THEN <<Stamp(Candidate(c, 1), StartDay - 1)>> \o SubSeq(Fillers(c), 2, n)
         ELSE SubSeq(Fillers(c), 1, n)
    ELSE IF n = 0 THEN <<>> ELSE SubSeq(Fillers(c), LiveCap - 2, LiveCap)

\* the archive when the run begins: a row for the oldest live science article
\* and, when stamped, the row v2 wrote for candidate 1; no row when n = 0
InitArchive(n, stamped) ==
    LET oldest == Filler("science", LiveCap)
        first == Candidate("science", 1)
    IN IF n = 0 THEN <<>>
       ELSE [u \in {oldest.url} \cup (IF stamped THEN {first.url} ELSE {}) |->
                IF u = oldest.url
                THEN [category |-> "science", approved_date |-> oldest.approvedDate]
                ELSE [category |-> "science", approved_date |-> StartDay - 1]]

NoCall == [category |-> "", index |-> 0, repeated |-> FALSE]

\* callback_data "action:category:index" as handle_callback splits it
Callback(action, category, index) ==
    [action |-> action, category |-> category, index |-> index]

NoCallback == Callback("", "", 0)

\* the pick and the date a feed may begin with
InitPicks(n, stamped) ==
    IF n = 0 THEN {<<NoPick, NoDate>>}
    ELSE IF stamped THEN {<<Filler("science", 1), StartDay - 1>>}
    ELSE {<<NoPick, StartDay>>,
          <<Filler("science", 1), StartDay - 1>>,
          <<Filler("science", 1), StartDay>>}

\* the curators start: the feed and the archive as an earlier run left them,
\* nothing else going on
CuratorStart ==
    /\ curator \in {"v1", "v2"}
    /\ today = StartDay
    /\ pending = [c \in Categories |-> [k \in 1..PendingLen(c) |-> Candidate(c, k)]]
    /\ \E n \in {0, LiveCap}, stamped \in BOOLEAN :
        /\ n = 0 => ~stamped
        /\ stamped => curator = "v1"
        /\ live = [c \in Categories |-> InitList(c, n, stamped)]
        /\ archive = InitArchive(n, stamped)
        /\ startedEmpty = (n = 0)
        /\ \E p \in InitPicks(n, stamped) :
            /\ editorsPick = p[1]
            /\ lastUpdated = p[2]
    /\ result = NoResult
    /\ lastCall = NoCall
    /\ pickSetBy = {}
    /\ acted = NoCallback
    /\ ledger = {}
    /\ runs = 0
    /\ stagedBefore = {}
    /\ lastMark = NoMark
    /\ failed = {}
    /\ FileIdle
    /\ ChatIdle
    /\ SelectIdle
    /\ PollIdle
    /\ TextIdle
    /\ DepthIdle
    /\ CollectorIdle

Init ==
    /\ CuratorStart
    /\ PublishIdle

----------------------------------------------------------------------------
\* Callback inputs: callback_data = "action:category:index"; each action has
\* its branch of handle_callback below

CallbackCategories == Categories \cup {UnknownCategory}

IndexInputs == {-(NumCand + 1), -1} \cup 0..NumCand

----------------------------------------------------------------------------
\* handle_callback, branches shared by both scripts

\* category not in pending or index >= len(pending[category])
NotFound(category, index) ==
    /\ result = NoResult
    /\ ~Found(category, index)
    /\ result' = Returned("Article not found", "none")
    /\ lastCall' = NoCall
    /\ acted' = NoCallback
    /\ UNCHANGED <<collectorVars, sideVars>>
    /\ UNCHANGED <<curator, today, pending, feed, archive, pickSetBy,
                   startedEmpty>>

\* pending[category][index] raises IndexError for index < -len; run_curator
\* catches the exception and goes on polling
IndexError(category, index) ==
    /\ result = NoResult
    /\ Found(category, index)
    /\ ~InRange(pending[category], index)
    /\ result' = Returned("exception", "none")
    /\ lastCall' = NoCall
    /\ acted' = NoCallback
    /\ UNCHANGED <<collectorVars, sideVars>>
    /\ UNCHANGED <<curator, today, pending, feed, archive, pickSetBy,
                   startedEmpty>>

\* the callback gets past the guard and article = pending[category][index]
Reaches(category, index) ==
    /\ result = NoResult
    /\ Found(category, index)
    /\ InRange(pending[category], index)

\* an action other than approve, reject and pick: return "Unknown action"
UnknownAction(category, index) ==
    /\ Reaches(category, index)
    /\ result' = Returned("Unknown action", "none")
    /\ lastCall' = NoCall
    /\ acted' = NoCallback
    /\ UNCHANGED <<collectorVars, sideVars>>
    /\ UNCHANGED <<curator, today, pending, feed, archive, pickSetBy,
                   startedEmpty>>

\* the record of an approve callback in lastCall
ApproveCall(category, index) ==
    [category |-> category, index |-> index,
     repeated |-> lastCall.category = category /\ lastCall.index = index]

----------------------------------------------------------------------------
\* telegram_curator.py: handle_callback

\* approve, article already in the live list: return "Already live"
V1AlreadyLive(category, index) ==
    /\ Reaches(category, index)
    /\ V1Contains(live[category], PyIndex(pending[category], index))
    /\ result' = Returned("Already live", "none")
    /\ lastCall' = ApproveCall(category, index)
    /\ acted' = Callback("approve", category, index)
    /\ UNCHANGED <<collectorVars, sideVars>>
    /\ UNCHANGED <<curator, today, pending, feed, archive, pickSetBy,
                   startedEmpty>>

\* approve: insert at the top, keep 15, archive, set the pick when it is
\* missing or stale, push
V1Approve(category, index, pushOk) ==
    /\ Reaches(category, index)
    /\ LET article == PyIndex(pending[category], index)
           fresh == V1PickFresh(lastUpdated, editorsPick, today)
       IN /\ ~V1Contains(live[category], article)
          /\ live' = [live EXCEPT ![category] = V1Cap(InsertFront(@, article))]
          /\ archive' = V1AddToArchive(archive, article, category, today)
          /\ editorsPick' = IF fresh THEN editorsPick ELSE article
          /\ lastUpdated' = IF fresh THEN lastUpdated ELSE today
          /\ pickSetBy' = IF fresh THEN pickSetBy ELSE pickSetBy \cup {"approve"}
          /\ result' = Returned(IF fresh THEN "LIVE" ELSE "LIVE + PICK",
                                PushText(pushOk))
    /\ lastCall' = ApproveCall(category, index)
    /\ acted' = Callback("approve", category, index)
    /\ UNCHANGED <<collectorVars, sideVars>>
    /\ UNCHANGED <<curator, today, pending, startedEmpty>>

\* reject: drop every entry with the article's url, push
V1Reject(category, index, pushOk) ==
    /\ Reaches(category, index)
    /\ LET article == PyIndex(pending[category], index)
       IN live' = [live EXCEPT ![category] = RemoveUrl(@, article.url)]
    /\ result' = Returned("Removed", PushText(pushOk))
    /\ lastCall' = NoCall
    /\ acted' = Callback("reject", category, index)
    /\ UNCHANGED <<collectorVars, sideVars>>
    /\ UNCHANGED <<curator, today, pending, editorsPick, lastUpdated, archive,
                   pickSetBy, startedEmpty>>

\* pick: set the pick, insert when the article is not in the list, keep 15,
\* archive, push; lastUpdated is not written
V1Pick(category, index, pushOk) ==
    /\ Reaches(category, index)
    /\ LET article == PyIndex(pending[category], index)
       IN /\ editorsPick' = article
          /\ live' = [live EXCEPT ![category] =
                        IF V1Contains(@, article) THEN @
                        ELSE V1Cap(InsertFront(@, article))]
          /\ archive' = V1AddToArchive(archive, article, category, today)
    /\ pickSetBy' = pickSetBy \cup {"pick"}
    /\ result' = Returned("PICK", PushText(pushOk))
    /\ lastCall' = NoCall
    /\ acted' = Callback("pick", category, index)
    /\ UNCHANGED <<collectorVars, sideVars>>
    /\ UNCHANGED <<curator, today, pending, lastUpdated, startedEmpty>>

V1HandleCallback(category, index) ==
    /\ curator = "v1"
    /\ \/ NotFound(category, index)
       \/ IndexError(category, index)
       \/ UnknownAction(category, index)
       \/ V1AlreadyLive(category, index)
       \/ \E pushOk \in BOOLEAN :
            \/ V1Approve(category, index, pushOk)
            \/ V1Reject(category, index, pushOk)
            \/ V1Pick(category, index, pushOk)

----------------------------------------------------------------------------
\* telegram_curator_v2.py: handle_callback

\* approve, url already in the live list: return "Already live"
V2AlreadyLive(category, index) ==
    /\ Reaches(category, index)
    /\ V2Contains(live[category], PyIndex(pending[category], index))
    /\ result' = Returned("Already live", "none")
    /\ lastCall' = ApproveCall(category, index)
    /\ acted' = Callback("approve", category, index)
    /\ UNCHANGED <<collectorVars, sideVars>>
    /\ UNCHANGED <<curator, today, pending, feed, archive, pickSetBy,
                   startedEmpty>>

\* approve: stamp approvedDate, insert at the top, set the pick when it is
\* missing or stale, archive, push
V2Approve(category, index, pushOk) ==
    /\ Reaches(category, index)
    /\ ~V2Contains(live[category], PyIndex(pending[category], index))
    /\ LET article == Stamp(PyIndex(pending[category], index), today)
           stale == V2PickStale(lastUpdated, editorsPick, today)
       IN /\ pickSetBy' = IF stale THEN pickSetBy \cup {"approve"} ELSE pickSetBy
          /\ live' = [live EXCEPT ![category] = InsertFront(@, article)]
          /\ editorsPick' = IF stale THEN article ELSE editorsPick
          /\ lastUpdated' = IF stale THEN today ELSE lastUpdated
          /\ archive' = V2AddToArchive(archive, article, category, today)
          /\ result' = Returned(IF stale THEN "LIVE + PICK" ELSE "LIVE",
                                PushText(pushOk))
    /\ lastCall' = ApproveCall(category, index)
    /\ acted' = Callback("approve", category, index)
    /\ UNCHANGED <<collectorVars, sideVars>>
    /\ UNCHANGED <<curator, today, pending, startedEmpty>>

\* reject: drop every entry with the article's url, push
V2Reject(category, index, pushOk) ==
    /\ Reaches(category, index)
    /\ LET article == PyIndex(pending[category], index)
       IN live' = [live EXCEPT ![category] = RemoveUrl(@, article.url)]
    /\ result' = Returned("Removed", PushText(pushOk))
    /\ lastCall' = NoCall
    /\ acted' = Callback("reject", category, index)
    /\ UNCHANGED <<collectorVars, sideVars>>
    /\ UNCHANGED <<curator, today, pending, editorsPick, lastUpdated, archive,
                   pickSetBy, startedEmpty>>

\* pick: when the url is not live, stamp, insert and archive; then set the
\* pick and lastUpdated, push
V2Pick(category, index, pushOk) ==
    /\ Reaches(category, index)
    /\ LET candidate == PyIndex(pending[category], index)
           isLive == V2Contains(live[category], candidate)
           article == IF isLive THEN candidate ELSE Stamp(candidate, today)
       IN /\ live' = [live EXCEPT ![category] =
                        IF isLive THEN @ ELSE InsertFront(@, article)]
          /\ archive' = IF isLive THEN archive
                        ELSE V2AddToArchive(archive, article, category, today)
          /\ editorsPick' = article
    /\ lastUpdated' = today
    /\ pickSetBy' = pickSetBy \cup {"pick"}
    /\ result' = Returned("PICK", PushText(pushOk))
    /\ lastCall' = NoCall
    /\ acted' = Callback("pick", category, index)
    /\ UNCHANGED <<collectorVars, sideVars>>
    /\ UNCHANGED <<curator, today, pending, startedEmpty>>

V2HandleCallback(category, index) ==
    /\ curator = "v2"
    /\ \/ NotFound(category, index)
       \/ IndexError(category, index)
       \/ UnknownAction(category, index)
       \/ V2AlreadyLive(category, index)
       \/ \E pushOk \in BOOLEAN :
            \/ V2Approve(category, index, pushOk)
            \/ V2Reject(category, index, pushOk)
            \/ V2Pick(category, index, pushOk)

\* run_curator: answerCallbackQuery(text = result), or the except clause
\* after an exception of the handler; then the next update
AnswerCallback ==
    /\ result # NoResult
    /\ result' = NoResult
    /\ lastCall' = [lastCall EXCEPT !.repeated = FALSE]
    /\ acted' = NoCallback
    /\ UNCHANGED <<collectorVars, sideVars>>
    /\ UNCHANGED <<curator, today, pending, feed, archive, pickSetBy,
                   startedEmpty>>

\* cleanup_old_articles, run when the v2 curator (re)starts: articles stamped
\* before the cutoff leave the live lists
CleanupOldArticles ==
    /\ curator = "v2"
    /\ result = NoResult
    /\ live' = [c \in Categories |-> CleanupList(live[c], today - RetentionDays)]
    /\ lastCall' = NoCall
    /\ UNCHANGED <<collectorVars, sideVars>>
    /\ UNCHANGED <<acted, curator, today, pending, editorsPick, lastUpdated,
                   archive, result, pickSetBy, startedEmpty>>

----------------------------------------------------------------------------
\* The calendar

NextDay ==
    /\ result = NoResult
    /\ today < LastDay
    /\ today' = today + 1
    /\ pickSetBy' = {}
    /\ UNCHANGED <<collectorVars, sideVars>>
    /\ UNCHANGED <<acted, curator, pending, feed, archive, result, lastCall,
                   startedEmpty>>

----------------------------------------------------------------------------

Next ==
    \/ \E category \in CallbackCategories, index \in IndexInputs :
            \/ V1HandleCallback(category, index)
            \/ V2HandleCallback(category, index)
    \/ AnswerCallback
    \/ CleanupOldArticles
    \/ NextDay

Spec == Init /\ [][Next]_vars

----------------------------------------------------------------------------
\* telegram_curator.py: the /publish command. No code of the scripts writes
\* approved_articles.json; it holds what it held when the curator started.

\* an article approved_articles.json may hold from an earlier review
ApprovedEarlier == [url |-> 300, approvedDate |-> NoDate]

\* approved_articles.json: absent, or with one science article and no pick
ApprovedFiles ==
    {NoApproved,
     [editorsPick |-> NoPick,
      lists |-> [c \in Categories |->
                    IF c = "science" THEN <<ApprovedEarlier>> ELSE <<>>]]}

\* the first article of the first category that has one
FirstApproved(lists) ==
    IF lists["science"] # <<>> THEN lists["science"][1]
    ELSE lists["philosophy"][1]

\* publish_approved: with no approved article, return False; else write
\* articles.json from approved_articles.json, the pick defaulting to the
\* first approved article
PublishApproved ==
    /\ curator = "v1"
    /\ result = NoResult
    /\ IF \A c \in Categories : approvedFile.lists[c] = <<>>
       THEN UNCHANGED feed
       ELSE /\ lastUpdated' = today
            /\ editorsPick' =
                    IF approvedFile.editorsPick # NoPick
                    THEN approvedFile.editorsPick
                    ELSE FirstApproved(approvedFile.lists)
            /\ live' = approvedFile.lists
    /\ lastCall' = NoCall
    /\ UNCHANGED <<curator, today, pending, archive, result, pickSetBy,
                   startedEmpty, acted>>
    /\ UNCHANGED <<collectorVars, sideVars>>

PublishInit ==
    /\ CuratorStart
    /\ curator = "v1"
    /\ approvedFile \in ApprovedFiles

\* run_curator of telegram_curator.py: callbacks and /publish
PublishNext ==
    \/ \E category \in CallbackCategories, index \in IndexInputs :
            V1HandleCallback(category, index)
    \/ AnswerCallback
    \/ NextDay
    \/ PublishApproved

PublishSpec == PublishInit /\ [][PublishNext]_vars

----------------------------------------------------------------------------
\* handle_callback step by step on the file articles.json, in two curator
\* processes that share it: json.load, then open(ARTICLES_FILE, 'w'), which
\* empties the file, then json.dump and the close. Neither script takes a
\* lock or writes to a temporary file.

\* "Already live": the approve branch returns before it writes
LoadedAlreadyLive(l) ==
    /\ l.action = "approve"
    /\ LET article == PyIndex(pending[l.category], l.index)
       IN IF curator = "v1" THEN V1Contains(l.feed.live[l.category], article)
          ELSE V2Contains(l.feed.live[l.category], article)

\* telegram_curator.py: live_articles as the branch of the action writes it,
\* computed from the feed the process loaded
V1Written(l, day) ==
    LET f == l.feed
        article == PyIndex(pending[l.category], l.index)
        list == f.live[l.category]
        inserted == IF V1Contains(list, article) THEN list
                    ELSE V1Cap(InsertFront(list, article))
        fresh == V1PickFresh(f.lastUpdated, f.editorsPick, day)
    IN CASE l.action = "approve" ->
                Feed([f.live EXCEPT ![l.category] = inserted],
                     IF fresh THEN f.editorsPick ELSE article,
                     IF fresh THEN f.lastUpdated ELSE day)
         [] l.action = "reject" ->
                Feed([f.live EXCEPT ![l.category] = RemoveUrl(@, article.url)],
                     f.editorsPick, f.lastUpdated)
         [] OTHER ->
                Feed([f.live EXCEPT ![l.category] = inserted], article,
                     f.lastUpdated)

\* telegram_curator_v2.py: the same
V2Written(l, day) ==
    LET f == l.feed
        candidate == PyIndex(pending[l.category], l.index)
        list == f.live[l.category]
        isLive == V2Contains(list, candidate)
        article == IF isLive /\ l.action = "pick" THEN candidate
                   ELSE Stamp(candidate, day)
        inserted == IF isLive THEN list ELSE InsertFront(list, article)
        stale == V2PickStale(f.lastUpdated, f.editorsPick, day)
    IN CASE l.action = "approve" ->
                Feed([f.live EXCEPT ![l.category] = inserted],
                     IF stale THEN article ELSE f.editorsPick,
                     IF stale THEN day ELSE f.lastUpdated)
         [] l.action = "reject" ->
                Feed([f.live EXCEPT ![l.category] =
                        RemoveUrl(@, candidate.url)],
                     f.editorsPick, f.lastUpdated)
         [] OTHER ->
                Feed([f.live EXCEPT ![l.category] = inserted], article, day)

\* add_to_archive as the branch calls it: approve and v1's pick always, v2's
\* pick when it inserted the article, reject never
ArchiveWritten(l, arch, day) ==
    LET article == PyIndex(pending[l.category], l.index)
    IN CASE l.action = "reject" -> arch
         [] curator = "v1" -> V1AddToArchive(arch, article, l.category, day)
         [] l.action = "pick"
                /\ V2Contains(l.feed.live[l.category], article) -> arch
         [] OTHER -> V2AddToArchive(arch, article, l.category, day)

\* v2's pick calls add_to_archive before it opens the file, every other
\* branch after the write
ArchivedBeforeOpen(l) == curator = "v2" /\ l.action = "pick"

\* a process takes a callback past the guard and loads articles.json;
\* json.load raises on a file that is empty or cut short
LoadArticles(p, action, category, index) ==
    /\ loaded[p] = NoLoad
    /\ ~torn
    /\ Found(category, index)
    /\ InRange(pending[category], index)
    /\ loaded' = [loaded EXCEPT ![p] =
                    [action |-> action, category |-> category,
                     index |-> index, opened |-> FALSE,
                     feed |-> Feed(live, editorsPick, lastUpdated)]]
    /\ UNCHANGED <<torn, pending>>
    /\ UNCHANGED <<curatorVars, collectorVars, pureVars, loopVars>>

\* the approve branch finds the article in what it loaded and returns
ReturnAlreadyLive(p) ==
    /\ loaded[p] # NoLoad
    /\ LoadedAlreadyLive(loaded[p])
    /\ loaded' = [loaded EXCEPT ![p] = NoLoad]
    /\ UNCHANGED <<torn, pending>>
    /\ UNCHANGED <<curatorVars, collectorVars, pureVars, loopVars>>

\* open(ARTICLES_FILE, 'w'): the file is emptied before anything is written
\* (a second process opening the file meanwhile is left out)
OpenArticles(p) ==
    /\ loaded[p] # NoLoad
    /\ ~LoadedAlreadyLive(loaded[p])
    /\ \A q \in Processes : ~loaded[q].opened
    /\ torn' = TRUE
    /\ loaded' = [loaded EXCEPT ![p].opened = TRUE]
    /\ archive' = IF ArchivedBeforeOpen(loaded[p])
                  THEN ArchiveWritten(loaded[p], archive, today)
                  ELSE archive
    /\ UNCHANGED <<curator, today, pending, feed, result, lastCall,
                   pickSetBy, startedEmpty, acted>>
    /\ UNCHANGED <<collectorVars, pureVars, loopVars>>

\* json.dump and the close complete, then add_to_archive: the file holds
\* what the process made of the feed it had loaded
DumpArticles(p) ==
    /\ loaded[p].opened
    /\ LET written == IF curator = "v1" THEN V1Written(loaded[p], today)
                      ELSE V2Written(loaded[p], today)
       IN /\ live' = written.live
          /\ editorsPick' = written.editorsPick
          /\ lastUpdated' = written.lastUpdated
    /\ archive' = IF ArchivedBeforeOpen(loaded[p]) THEN archive
                  ELSE ArchiveWritten(loaded[p], archive, today)
    /\ torn' = FALSE
    /\ loaded' = [loaded EXCEPT ![p] = NoLoad]
    /\ UNCHANGED <<curator, today, pending, result, lastCall, pickSetBy,
                   startedEmpty, acted>>
    /\ UNCHANGED <<collectorVars, pureVars, loopVars>>

\* json.dump raises (disk full) or the process is stopped before the close:
\* the file stays as the open left it
WriteInterrupted(p) ==
    /\ loaded[p].opened
    /\ loaded' = [loaded EXCEPT ![p] = NoLoad]
    /\ UNCHANGED <<torn, pending>>
    /\ UNCHANGED <<curatorVars, collectorVars, pureVars, loopVars>>

\* either script runs in both processes, on a feed with one live article
SharedFileInit ==
    /\ curator \in {"v1", "v2"}
    /\ today = StartDay
    /\ pending = [c \in Categories |->
                    [k \in 1..PendingLen(c) |-> Candidate(c, k)]]
    /\ live = [c \in Categories |->
                    IF c = "science" THEN <<Filler(c, 1)>> ELSE <<>>]
    /\ archive = V2AddToArchive(<<>>, Filler("science", 1), "science",
                                Filler("science", 1).approvedDate)
    /\ editorsPick = NoPick
    /\ lastUpdated = NoDate
    /\ startedEmpty = FALSE
    /\ result = NoResult
    /\ lastCall = NoCall
    /\ pickSetBy = {}
    /\ acted = NoCallback
    /\ ledger = {}
    /\ runs = 0
    /\ stagedBefore = {}
    /\ lastMark = NoMark
    /\ failed = {}
    /\ FileIdle
    /\ ChatIdle
    /\ SelectIdle
    /\ PollIdle
    /\ PublishIdle
    /\ TextIdle
    /\ DepthIdle
    /\ CollectorIdle

SharedFileNext ==
    \E p \in Processes :
        \/ \E action \in {"approve", "reject", "pick"},
              category \in Categories, index \in 0..(NumCand - 1) :
                LoadArticles(p, action, category, index)
        \/ ReturnAlreadyLive(p)
        \/ OpenArticles(p)
        \/ DumpArticles(p)
        \/ WriteInterrupted(p)

SharedFileSpec == SharedFileInit /\ [][SharedFileNext]_vars

----------------------------------------------------------------------------
\* feed_collector.py: the seen-ledger

\* faulty variant: the SELECT never finds a row
IsArticleSeenNever(rows, url) == FALSE

\* is_article_seen: SELECT 1 FROM seen_articles WHERE url = ?
IsArticleSeen(rows, url) == \E r \in rows : r.url = url

\* a row of seen_articles; first_seen defaults to CURRENT_TIMESTAMP
SeenRow(url, headline, category, now) ==
    [url |-> url, headline |-> headline, category |-> category,
     first_seen |-> now]

\* faulty variant: the insert is never committed
MarkArticleSeenLost(rows, url, headline, category, now) == rows

\* faulty variant: a plain INSERT into a table without the primary key
MarkArticleSeenAgain(rows, url, headline, category, now) ==
    rows \cup {SeenRow(url, headline, category, now)}

\* mark_article_seen: INSERT OR IGNORE INTO seen_articles (url PRIMARY KEY,
\* headline, category); a row with the url makes the statement a no-op
MarkArticleSeen(rows, url, headline, category, now) ==
    IF \E r \in rows : r.url = url
    THEN rows
    ELSE rows \cup {SeenRow(url, headline, category, now)}

----------------------------------------------------------------------------
\* feed_collector.py: the gates and the selection

\* position of a listing in Listings
ListingPosition(name) == CHOOSE k \in DOMAIN Listings : Listings[k] = name

\* faulty variant: an entry without a date is skipped like an old one
FetchKeepsDated(e, day) ==
    \/ e.listing = "Hacker News"
    \/ e.published # NoDate /\ e.published >= day - MaxAgeDays

\* fetch_feed skips an entry when published and published < cutoff;
\* fetch_hacker_news has no such test
FetchKeeps(e, day) ==
    \/ e.listing = "Hacker News"
    \/ e.published = NoDate
    \/ e.published >= day - MaxAgeDays

\* faulty variant: the headline is looked up as it is written
CollectKeepsExact(e, seen) == e.headline \notin seen

\* collect_all_feeds: skip when headline_lower in seen_headlines
\* (is_political_content only concerns the books category)
CollectKeeps(e, seen) == Lower(e.headline) \notin seen

\* the categories in the order of all_articles.items()
CategoryOrder == <<"science", "philosophy">>

\* main, the loop over one category's articles: an article whose url is in
\* the ledger is skipped, any other is kept and marked seen at once
RECURSIVE FilterSeen(_, _, _, _)
FilterSeen(articles, rows, category, now) ==
    IF articles = <<>> THEN [kept |-> <<>>, rows |-> rows, last |-> NoMark]
    ELSE LET article == Head(articles)
         IN IF IsArticleSeen(rows, article.url)
            THEN FilterSeen(Tail(articles), rows, category, now)
            ELSE LET rest == FilterSeen(Tail(articles),
                                MarkArticleSeen(rows, article.url,
                                    article.headline, category, now),
                                category, now)
                 IN [kept |-> <<article>> \o rest.kept, rows |-> rest.rows,
                     last |-> IF rest.last # NoMark THEN rest.last
                              ELSE [url |-> article.url,
                                    headline |-> article.headline,
                                    category |-> category]]

\* articles.sort(key=lambda x: x.get('published') or '', reverse=True):
\* newest first, undated last, equal keys in their old order
RECURSIVE SortByPublished(_)
SortByPublished(articles) ==
    IF articles = <<>> THEN <<>>
    ELSE LET newest == CHOOSE k \in DOMAIN articles :
                /\ \A m \in DOMAIN articles :
                        articles[m].published <= articles[k].published
                /\ \A m \in 1..(k - 1) :
                        articles[m].published < articles[k].published
         IN <<articles[newest]>> \o
            SortByPublished(SubSeq(articles, 1, newest - 1) \o
                            SubSeq(articles, newest + 1, Len(articles)))

\* the dict select_articles appends to picks
Pick(article) ==
    [headline |-> article.headline, source |-> article.source,
     url |-> article.url]

\* faulty variant: the first loop takes nothing
PickBySourceNone(articles, picks, perCategory) == picks

\* first loop of select_articles: one article per source
RECURSIVE PickBySource(_, _, _)
PickBySource(articles, picks, perCategory) ==
    IF articles = <<>> \/ Len(picks) >= perCategory THEN picks
    ELSE LET article == Head(articles)
             used == \E k \in DOMAIN picks :
                        \/ picks[k].url = article.url
                        \/ picks[k].source = article.source
         IN PickBySource(Tail(articles),
                IF used THEN picks ELSE Append(picks, Pick(article)),
                perCategory)

\* second loop of select_articles: fill up, no url twice
RECURSIVE PickRemaining(_, _, _)
PickRemaining(articles, picks, perCategory) ==
    IF articles = <<>> \/ Len(picks) >= perCategory THEN picks
    ELSE LET article == Head(articles)
             used == \E k \in DOMAIN picks : picks[k].url = article.url
         IN PickRemaining(Tail(articles),
                IF used THEN picks ELSE Append(picks, Pick(article)),
                perCategory)

\* select_articles, for one category
SelectArticles(articles, perCategory) ==
    LET sorted == SortByPublished(articles)
    IN PickRemaining(sorted, PickBySource(sorted, <<>>, perCategory),
                     perCategory)

----------------------------------------------------------------------------
\* feed_collector.py: main

\* the listings' entries a run may meet
Entries ==
    {Entry(Listings[k], url, headline, published) :
        k \in DOMAIN Listings, url \in FeedUrls, headline \in Headlines,
        published \in PublishedDays}

\* main starts: init_db, then collect_all_feeds with empty seen_headlines
StartRun ==
    /\ phase = "idle"
    /\ runs < MaxRuns
    /\ runs' = runs + 1
    /\ phase' = "collect"
    /\ listing' = 1
    /\ UNCHANGED <<ledger, fetched, seenHeadlines, candidates, newArticles,
                   selected, pendingData, stagedBefore, pending>>
    /\ UNCHANGED <<lastMark, failed>>
    /\ UNCHANGED <<curatorVars, sideVars>>

\* collect_all_feeds meets the next entry, of the listing being read or of
\* a later one: the age test of fetch_feed, then the headline test
FetchEntry(e) ==
    /\ phase = "collect"
    /\ fetched < MaxEntries
    /\ ListingPosition(e.listing) >= listing
    /\ listing' = ListingPosition(e.listing)
    /\ fetched' = fetched + 1
    /\ IF FetchKeeps(e, today) /\ CollectKeeps(e, seenHeadlines)
       THEN /\ seenHeadlines' = seenHeadlines \cup {Lower(e.headline)}
            /\ candidates' =
                    [candidates EXCEPT ![ListingCategory(e.listing)] =
                        Append(@, FeedArticle(e))]
       ELSE UNCHANGED <<seenHeadlines, candidates>>
    /\ UNCHANGED <<ledger, runs, phase, newArticles, selected, pendingData,
                   stagedBefore, pending>>
    /\ UNCHANGED <<lastMark, failed>>
    /\ UNCHANGED <<curatorVars, sideVars>>

\* fetch_feed or fetch_hacker_news raises inside its try block, on the
\* listing being read or on a later one: the except clause prints the error
\* and the function returns the articles it has appended so far
FeedFails(k) ==
    /\ phase = "collect"
    /\ k >= listing
    /\ Listings[k] \notin failed
    /\ failed' = failed \cup {Listings[k]}
    /\ listing' = k + 1
    /\ UNCHANGED <<ledger, runs, phase, fetched, seenHeadlines, candidates,
                   newArticles, selected, pendingData, stagedBefore, pending>>
    /\ UNCHANGED lastMark
    /\ UNCHANGED <<curatorVars, sideVars>>

\* collect_all_feeds returns all_articles = candidates (USE_AI_FILTER is off)
EndCollect ==
    /\ phase = "collect"
    /\ phase' = "filter"
    /\ UNCHANGED <<ledger, runs, listing, fetched, seenHeadlines, candidates,
                   newArticles, selected, pendingData, stagedBefore, pending>>
    /\ failed' = {}
    /\ UNCHANGED lastMark
    /\ UNCHANGED <<curatorVars, sideVars>>

\* main filters all_articles against the ledger, category after category,
\* marking what it keeps; with nothing new it returns
FilterSeenArticles ==
    /\ phase = "filter"
    /\ LET first == FilterSeen(candidates[CategoryOrder[1]], ledger,
                               CategoryOrder[1], runs)
           second == FilterSeen(candidates[CategoryOrder[2]], first.rows,
                                CategoryOrder[2], runs)
           new == [c \in Categories |->
                    IF c = CategoryOrder[1] THEN first.kept ELSE second.kept]
       IN /\ ledger' = second.rows
          /\ lastMark' = IF second.last # NoMark THEN second.last
                         ELSE IF first.last # NoMark THEN first.last
                         ELSE lastMark
          /\ IF \A c \in Categories : new[c] = <<>>
             THEN /\ phase' = "idle"
                  /\ newArticles' = NoArticles
                  /\ candidates' = NoArticles
             ELSE /\ phase' = "select"
                  /\ newArticles' = new
                  /\ UNCHANGED candidates
    /\ listing' = 0
    /\ fetched' = 0
    /\ seenHeadlines' = {}
    /\ UNCHANGED failed
    /\ UNCHANGED <<runs, selected, pendingData, stagedBefore, pending>>
    /\ UNCHANGED <<curatorVars, sideVars>>

\* main: selected = select_articles(new_articles, per_category=50) and an
\* empty pending_data
Select ==
    /\ phase = "select"
    /\ selected' = [c \in Categories |->
                        SelectArticles(newArticles[c], PerCategory)]
    /\ pendingData' = NoArticles
    /\ newArticles' = NoArticles
    /\ phase' = "stage"
    /\ UNCHANGED <<ledger, runs, listing, fetched, seenHeadlines, candidates,
                   stagedBefore, pending>>
    /\ UNCHANGED <<lastMark, failed>>
    /\ UNCHANGED <<curatorVars, sideVars>>

\* the category whose next article main stages: the first one, in main's
\* order, with a selected article not yet in pending_data
StagingCategory ==
    IF Len(pendingData[CategoryOrder[1]]) < Len(selected[CategoryOrder[1]])
    THEN CategoryOrder[1] ELSE CategoryOrder[2]

AllStaged == \A c \in Categories : Len(pendingData[c]) = Len(selected[c])

\* faulty variant: the index is taken after the append without the - 1
SendIndexLength(list) == Len(list)

\* main: index = len(pending_data[category]) - 1, after the append
SendIndex(list) == Len(list) - 1

\* send_article_to_telegram(article, category, index): a message whose
\* buttons carry "approve:category:index", "reject:..." and "pick:..."
Message(article, category, index, run) ==
    [category |-> category, index |-> index, article |-> article, run |-> run]

\* main: pending_data[category].append(article); save_pending(...); then
\* send_article_to_telegram with the index of the article just appended
StageArticle ==
    /\ phase = "stage"
    /\ ~AllStaged
    /\ LET c == StagingCategory
           article == selected[c][Len(pendingData[c]) + 1]
       IN /\ pendingData' = [pendingData EXCEPT ![c] = Append(@, article)]
          /\ sent' = sent \cup
                {Message(article, c, SendIndex(pendingData'[c]), runs)}
    /\ pending' = pendingData'
    /\ UNCHANGED <<ledger, runs, phase, listing, fetched, seenHeadlines,
                   candidates, newArticles, selected, stagedBefore>>
    /\ UNCHANGED <<lastMark, failed>>
    /\ UNCHANGED <<curatorVars, quietVars>>

\* main: the last save_pending, and the run ends
FinishRun ==
    /\ phase = "stage"
    /\ AllStaged
    /\ pending' = pendingData
    /\ stagedBefore' =
            stagedBefore \cup UNION {Urls(pendingData[c]) : c \in Categories}
    /\ phase' = "idle"
    /\ selected' = NoArticles
    /\ pendingData' = NoArticles
    /\ candidates' = NoArticles
    /\ UNCHANGED <<ledger, runs, listing, fetched, seenHeadlines,
                   newArticles>>
    /\ UNCHANGED <<lastMark, failed>>
    /\ UNCHANGED <<curatorVars, sideVars>>

\* the collector starts with an empty database and an empty pending store
CollectorStart ==
    /\ curator = "v2"
    /\ today = StartDay
    /\ pending = NoArticles
    /\ live = NoArticles
    /\ editorsPick = NoPick
    /\ lastUpdated = NoDate
    /\ archive = <<>>
    /\ startedEmpty = TRUE
    /\ result = NoResult
    /\ lastCall = NoCall
    /\ pickSetBy = {}
    /\ acted = NoCallback
    /\ ledger = {}
    /\ runs = 0
    /\ stagedBefore = {}
    /\ lastMark = NoMark
    /\ failed = {}
    /\ CollectorIdle

CollectorInit ==
    /\ CollectorStart
    /\ FileIdle
    /\ ChatIdle
    /\ SelectIdle
    /\ PollIdle
    /\ PublishIdle
    /\ TextIdle
    /\ DepthIdle

CollectorNext ==
    \/ StartRun
    \/ \E e \in Entries : FetchEntry(e)
    \/ EndCollect
    \/ FilterSeenArticles
    \/ Select
    \/ StageArticle
    \/ FinishRun

CollectorSpec == CollectorInit /\ [][CollectorNext]_vars

\* The collector with the fetch failures made visible. In CollectorSpec a
\* listing that fails is a listing that returns the entries read before the
\* failure and no more; here the run also records which listings failed.
FetchFailureNext ==
    \/ CollectorNext
    \/ \E k \in DOMAIN Listings : FeedFails(k)

FetchFailureSpec == CollectorInit /\ [][FetchFailureNext]_vars

----------------------------------------------------------------------------
\* The review messages: the collector sends one per staged article, and the
\* curators' /review (or /start) command sends one per article of the pending
\* store as it stands

\* the run field of a message a curator sent
NoRun == 0

\* send_articles_for_review: send_article_for_review(article, category, i)
\* for i, article in enumerate(category_articles)
ReviewMessages(articles) ==
    UNION {{Message(articles[c][k], c, k - 1, NoRun) : k \in DOMAIN articles[c]} :
            c \in DOMAIN articles}

\* send_articles_for_review: pending[category] = category_articles for the
\* categories with articles, then save_pending(pending)
ReviewedStore(articles) ==
    [c \in {d \in DOMAIN articles : articles[d] # <<>>} |-> articles[c]]

\* run_curator on "/start" or "/review": send_articles_for_review()
SendArticlesForReview ==
    /\ result = NoResult
    /\ sent' = sent \cup ReviewMessages(pending)
    /\ pending' = ReviewedStore(pending)
    /\ UNCHANGED <<curatorVars, collectorVars, quietVars>>

ReviewNext ==
    \/ CollectorNext
    \/ SendArticlesForReview

ReviewSpec == CollectorInit /\ [][ReviewNext]_vars

----------------------------------------------------------------------------
\* run_curator of both scripts as a polling loop: get_updates(offset), then
\* for each update of the result: offset = update_id + 1, then the command or
\* the callback; an exception ends the for loop and the while loop goes on

\* what the editor may send: a button press that handle_callback serves, one
\* whose index makes pending[category][index] raise, and the /review command
PollInputs ==
    {[kind |-> "callback", category |-> "science", index |-> 0],
     [kind |-> "callback", category |-> "science", index |-> -(NumCand + 1)],
     [kind |-> "message", category |-> "", index |-> 0]}

\* faulty variant: the offset stays where it was
NextOffsetKept(old, id) == old

\* offset = update["update_id"] + 1
NextOffset(old, id) == id + 1

\* getUpdates: the updates with update_id >= offset, all of them when no
\* offset is passed, in the order of their ids
Fetched(received, from) ==
    LET first == IF from = NoOffset THEN 1 ELSE from
    IN [k \in 1..(Len(received) - first + 1) |-> first + k - 1]

\* the editor presses a button or sends a command: Telegram queues the update
DeliverUpdate(d) ==
    /\ Len(updates) < MaxUpdates
    /\ updates' = Append(updates, d)
    /\ handledTimes' = Append(handledTimes, 0)
    /\ UNCHANGED <<offset, batch, current, pending>>
    /\ UNCHANGED <<curatorVars, collectorVars, fileVars, pureVars, chatVars,
                   publishVars>>

\* updates = get_updates(offset), at the top of the while loop
GetUpdates ==
    /\ result = NoResult
    /\ current = NoUpdate
    /\ batch = <<>>
    /\ batch' = Fetched(updates, offset)
    /\ UNCHANGED <<updates, offset, current, handledTimes, pending>>
    /\ UNCHANGED <<curatorVars, collectorVars, fileVars, pureVars, chatVars,
                   publishVars>>

\* the for loop reaches the next update: offset = update["update_id"] + 1
TakeUpdate ==
    /\ result = NoResult
    /\ current = NoUpdate
    /\ batch # <<>>
    /\ handledTimes[Head(batch)] < MaxHandled
    /\ current' = Head(batch)
    /\ offset' = NextOffset(offset, Head(batch))
    /\ batch' = Tail(batch)
    /\ handledTimes' = [handledTimes EXCEPT ![Head(batch)] = @ + 1]
    /\ UNCHANGED <<updates, pending>>
    /\ UNCHANGED <<curatorVars, collectorVars, fileVars, pureVars, chatVars,
                   publishVars>>

\* "callback_query" in update: pending = load_pending(), handle_callback
HandleCallbackUpdate ==
    /\ current # NoUpdate
    /\ updates[current].kind = "callback"
    /\ \/ V1HandleCallback(updates[current].category, updates[current].index)
       \/ V2HandleCallback(updates[current].category, updates[current].index)

\* "message" in update with the text /start or /review:
\* send_articles_for_review(), then pending = load_pending()
HandleReviewUpdate ==
    /\ result = NoResult
    /\ current # NoUpdate
    /\ updates[current].kind = "message"
    /\ sent' = sent \cup ReviewMessages(pending)
    /\ pending' = ReviewedStore(pending)
    /\ current' = NoUpdate
    /\ UNCHANGED <<updates, offset, batch, handledTimes>>
    /\ UNCHANGED <<curatorVars, collectorVars, fileVars, pureVars,
                   publishVars>>

\* handle_callback returned: answerCallbackQuery; when the request raises,
\* the except clause ends the for loop
AnswerUpdate(answered) ==
    /\ current # NoUpdate
    /\ result # NoResult
    /\ result.kind # "exception"
    /\ result' = NoResult
    /\ lastCall' = [lastCall EXCEPT !.repeated = FALSE]
    /\ acted' = NoCallback
    /\ current' = NoUpdate
    /\ batch' = IF answered THEN batch ELSE <<>>
    /\ UNCHANGED <<updates, offset, handledTimes>>
    /\ UNCHANGED <<curator, today, pending, feed, archive, pickSetBy,
                   startedEmpty>>
    /\ UNCHANGED <<collectorVars, fileVars, pureVars, chatVars, publishVars>>

\* handle_callback raised: except Exception prints the error and sleeps; the
\* rest of the for loop is skipped
CatchException ==
    /\ current # NoUpdate
    /\ result.kind = "exception"
    /\ result' = NoResult
    /\ lastCall' = [lastCall EXCEPT !.repeated = FALSE]
    /\ acted' = NoCallback
    /\ current' = NoUpdate
    /\ batch' = <<>>
    /\ UNCHANGED <<updates, offset, handledTimes>>
    /\ UNCHANGED <<curator, today, pending, feed, archive, pickSetBy,
                   startedEmpty>>
    /\ UNCHANGED <<collectorVars, fileVars, pureVars, chatVars, publishVars>>

\* either curator starts on an empty feed, with the candidates of the last
\* collector run in the pending store
PollInit ==
    /\ CuratorStart
    /\ startedEmpty
    /\ PublishIdle

PollNext ==
    \/ \E d \in PollInputs : DeliverUpdate(d)
    \/ GetUpdates
    \/ TakeUpdate
    \/ HandleCallbackUpdate
    \/ HandleReviewUpdate
    \/ \E answered \in BOOLEAN : AnswerUpdate(answered)
    \/ CatchException

PollSpec == PollInit /\ [][PollNext]_vars

\* the loop is a sequential program that never blocks for good: every step
\* it can take, it takes
PollLiveSpec ==
    /\ PollSpec
    /\ WF_vars(GetUpdates)
    /\ WF_vars(TakeUpdate)
    /\ WF_vars(HandleCallbackUpdate)
    /\ WF_vars(HandleReviewUpdate)
    /\ WF_vars(\E answered \in BOOLEAN : AnswerUpdate(answered))
    /\ WF_vars(CatchException)

----------------------------------------------------------------------------
\* The seen-ledger on its own: mark_article_seen called with any arguments
\* at any time

MarkSeenCall(url, headline, category) ==
    /\ ledger' = MarkArticleSeen(ledger, url, headline, category, runs)
    /\ lastMark' = [url |-> url, headline |-> headline, category |-> category]
    /\ UNCHANGED <<failed, runs, phase, listing, fetched, seenHeadlines,
                   candidates,
                   newArticles, selected, pendingData, stagedBefore, pending>>
    /\ UNCHANGED <<curatorVars, sideVars>>

\* time passes: a later CURRENT_TIMESTAMP
LaterTimestamp ==
    /\ runs < MaxRuns
    /\ runs' = runs + 1
    /\ UNCHANGED <<ledger, lastMark, failed, phase, listing, fetched,
                   seenHeadlines,
                   candidates, newArticles, selected, pendingData,
                   stagedBefore, pending>>
    /\ UNCHANGED <<curatorVars, sideVars>>

LedgerNext ==
    \/ \E url \in FeedUrls, headline \in Headlines, category \in Categories :
            MarkSeenCall(url, headline, category)
    \/ LaterTimestamp

LedgerSpec == CollectorInit /\ [][LedgerNext]_vars

----------------------------------------------------------------------------
\* feed_collector.py: clean_html and truncate_teaser on texts of letters and
\* blanks

\* the texts a feed's summary may be
RECURSIVE TextsOfLength(_)
TextsOfLength(n) ==
    IF n = 0 THEN {<<>>}
    ELSE {Append(t, ch) : t \in TextsOfLength(n - 1), ch \in {"a", " "}}

Texts == UNION {TextsOfLength(n) : n \in 0..MaxText}

\* text.strip() at the left end
RECURSIVE LStrip(_)
LStrip(chars) ==
    IF chars # <<>> /\ Head(chars) = " " THEN LStrip(Tail(chars)) ELSE chars

\* re.sub(r'\s+', ' ', text) followed by strip() at the right end: one blank
\* for every run of blanks, none for a run that ends the text
RECURSIVE Collapse(_)
Collapse(chars) ==
    IF chars = <<>> THEN <<>>
    ELSE IF Head(chars) = " "
         THEN LET rest == LStrip(chars)
              IN IF rest = <<>> THEN <<>> ELSE <<" ">> \o Collapse(rest)
         ELSE <<Head(chars)>> \o Collapse(Tail(chars))

\* clean_html on a text without tags and entities
CleanChars(chars) == Collapse(LStrip(chars))

\* s.rsplit(' ', 1)[0]: s up to its last blank, s itself when it has none
RSplitHead(s) ==
    LET blanks == {k \in DOMAIN s : s[k] = " "}
    IN IF blanks = {} THEN s
       ELSE SubSeq(s, 1, (CHOOSE k \in blanks : \A j \in blanks : j <= k) - 1)

\* the marker truncate_teaser appends
Ellipsis == <<".", ".", ".">>

\* truncate_teaser(text, max_len)
TruncateTeaser(chars, len) ==
    LET clean == CleanChars(chars)
    IN IF Len(clean) <= len THEN clean
       ELSE RSplitHead(SubSeq(clean, 1, len)) \o Ellipsis

\* a call of truncate_teaser returns
TruncateCall ==
    /\ teaser = NoTeaser
    /\ teaser' = TruncateTeaser(rawText, maxLen)
    /\ UNCHANGED <<rawText, maxLen, pending>>
    /\ UNCHANGED <<curatorVars, collectorVars, fileVars, depthVars>>
    /\ UNCHANGED <<selectVars, loopVars>>

\* truncate_teaser is called with any text and any positive max_len
TeaserInit ==
    /\ CollectorStart
    /\ FileIdle
    /\ ChatIdle
    /\ SelectIdle
    /\ PollIdle
    /\ PublishIdle
    /\ \E chars \in Texts, len \in 1..MaxText :
        /\ rawText = chars
        /\ maxLen = len
    /\ teaser = NoTeaser
    /\ DepthIdle

TeaserNext == TruncateCall

TeaserSpec == TeaserInit /\ [][TeaserNext]_vars

----------------------------------------------------------------------------
\* The staging selector and the depth gate of the second collector, which
\* writes the word_count and score the v2 curator shows. Scores are in
\* hundredths.

\* select_per_category
SelectPerCategory == 1

\* overfetch_factor
OverfetchFactor == 2

\* the per-category minimum of words: philosophy asks for deeper pieces
CategoryMinWords(category) == IF category = "philosophy" THEN 600 ELSE 400

DepthDomains == {"plain.example", "brief.example"}

\* the per-domain override of the minimum, 0 where none is configured
DomainMinWords(domain) == IF domain = "brief.example" THEN 400 ELSE 0

\* the threshold of greater specificity: the domain's override when one is
\* configured, else the category's minimum
Threshold(category, domain) ==
    IF DomainMinWords(domain) # 0 THEN DomainMinWords(domain)
    ELSE CategoryMinWords(category)

\* word counts the collaborator returns; 0 on any failure
WordCounts == {0, 450, 600}

BaseScores == {100, 200}

\* log10(max(word_count, 100)), in hundredths, on WordCounts
DepthScore(words) ==
    CASE words = 600 -> 278
      [] words = 450 -> 265
      [] OTHER -> 200

\* base_score + log10(max(word_count, 100))
FinalScore(c) == c.base_score + DepthScore(c.word_count)

\* faulty variant: only a failed measurement is below the threshold
DepthKeepsMeasured(category, c) == c.word_count > 0

\* the depth gate keeps a candidate whose word count reaches the threshold;
\* word_count = 0 is below every threshold
DepthKeeps(category, c) == c.word_count >= Threshold(category, c.domain)

\* sort by descending key, candidates with equal keys in their old order
RECURSIVE SortByKey(_)
SortByKey(cs) ==
    IF cs = <<>> THEN <<>>
    ELSE LET top == CHOOSE k \in DOMAIN cs :
                /\ \A m \in DOMAIN cs : cs[m].key <= cs[k].key
                /\ \A m \in 1..(k - 1) : cs[m].key < cs[k].key
         IN <<cs[top]>> \o
            SortByKey(SubSeq(cs, 1, top - 1) \o SubSeq(cs, top + 1, Len(cs)))

Keyed(c, key) ==
    [url |-> c.url, domain |-> c.domain, base_score |-> c.base_score,
     word_count |-> c.word_count, key |-> key]

Unkeyed(c) ==
    [url |-> c.url, domain |-> c.domain, base_score |-> c.base_score,
     word_count |-> c.word_count]

Take(cs, n) == SubSeq(cs, 1, IF Len(cs) < n THEN Len(cs) ELSE n)

\* the staging selector: by base_score, the top select_per_category times
\* overfetch_factor, at least select_per_category
Staged(cs) ==
    LET n == IF SelectPerCategory * OverfetchFactor < SelectPerCategory
             THEN SelectPerCategory
             ELSE SelectPerCategory * OverfetchFactor
    IN Take(SortByKey([k \in DOMAIN cs |-> Keyed(cs[k], cs[k].base_score)]),
            n)

\* the depth gate: drop what is below its threshold, sort the survivors by
\* final_score, truncate to select_per_category
DepthGate(category, cs) ==
    LET kept == SelectSeq(Staged(cs), LAMBDA c : DepthKeeps(category, c))
        ranked == SortByKey([k \in DOMAIN kept |->
                                Keyed(kept[k], FinalScore(kept[k]))])
    IN Take([k \in DOMAIN ranked |-> Unkeyed(ranked[k])], SelectPerCategory)

\* the candidates of one category, urls in the order of discovery
RECURSIVE ScoredLists(_)
ScoredLists(n) ==
    IF n = 0 THEN {<<>>}
    ELSE {Append(cs, [url |-> n, domain |-> d, base_score |-> b,
                      word_count |-> w]) :
            cs \in ScoredLists(n - 1), d \in DepthDomains,
            b \in BaseScores, w \in WordCounts}

\* the depth gate runs on the category's candidates
RunDepthGate ==
    /\ ~depthOut.ran
    /\ depthOut' = [ran |-> TRUE, kept |-> DepthGate(depthCategory, scored)]
    /\ UNCHANGED <<depthCategory, scored, pending>>
    /\ UNCHANGED <<curatorVars, collectorVars, fileVars, textVars>>
    /\ UNCHANGED <<selectVars, loopVars>>

DepthInit ==
    /\ CollectorStart
    /\ FileIdle
    /\ ChatIdle
    /\ SelectIdle
    /\ PollIdle
    /\ PublishIdle
    /\ TextIdle
    /\ depthCategory \in {"philosophy", "books"}
    /\ scored \in UNION {ScoredLists(n) : n \in 1..MaxScored}
    /\ depthOut = NoDepthOut

DepthNext == RunDepthGate

DepthSpec == DepthInit /\ [][DepthNext]_vars

----------------------------------------------------------------------------
\* feed_collector.py: main's filter and select_articles on one category's
\* articles; whatever collect_all_feeds may return for the category, with
\* per_category small enough to bind

SelectSources == {"Scientific American", "Hacker News"}

SelectUrls == {1, 2, 3}

\* the articles collect_all_feeds may return for the category
SelectInputs ==
    {[headline |-> "On Truth", source |-> source, url |-> url,
      published |-> published] :
        source \in SelectSources, url \in SelectUrls,
        published \in {NoDate, StartDay - 1}}

RECURSIVE ArticleLists(_)
ArticleLists(n) ==
    IF n = 0 THEN {<<>>}
    ELSE {Append(list, article) :
            list \in ArticleLists(n - 1), article \in SelectInputs}

\* values of per_category
PerCategories == {1, 2}

\* main: the filter against the ledger, which marks what it keeps, then
\* select_articles(new_articles, per_category)
FilterAndSelect ==
    /\ ~selectOut.ran
    /\ LET filtered == FilterSeen(selectArgs.articles, ledger, "science", 1)
       IN /\ ledger' = filtered.rows
          /\ lastMark' = IF filtered.last # NoMark THEN filtered.last
                         ELSE lastMark
          /\ selectOut' =
                [ran |-> TRUE, new |-> filtered.kept,
                 picks |-> SelectArticles(filtered.kept,
                                          selectArgs.perCategory)]
    /\ UNCHANGED <<selectArgs, pending>>
    /\ UNCHANGED <<runs, phase, listing, fetched, seenHeadlines, candidates,
                   newArticles, selected, pendingData, stagedBefore, failed>>
    /\ UNCHANGED <<curatorVars, fileVars, textVars, depthVars, loopVars>>

SelectInit ==
    /\ CollectorStart
    /\ FileIdle
    /\ ChatIdle
    /\ PollIdle
    /\ PublishIdle
    /\ TextIdle
    /\ DepthIdle
    /\ \E list \in UNION {ArticleLists(n) : n \in 0..MaxArticles},
          per \in PerCategories :
            selectArgs = [articles |-> list, perCategory |-> per]
    /\ selectOut = NoSelectOut

SelectNext == FilterAndSelect

SelectSpec == SelectInit /\ [][SelectNext]_vars

----------------------------------------------------------------------------
\* Properties

\* a step of handle_callback's approve branch ("Already live" included): the
\* only steps that return a result and leave an approve in lastCall
ApproveStep == result = NoResult /\ result' # NoResult /\ lastCall' # NoCall

\* the candidate the approve of lastCall' acted on
ApprovedCandidate == PyIndex(pending[lastCall'.category], lastCall'.index)

LiveUrls == UNION {Urls(live[c]) : c \in Categories}

\* C1: under telegram_curator.py every category's live list holds at most 15
\* articles, whatever callbacks were handled
V1LiveListsWithinCap ==
    curator = "v1" => \A c \in Categories : Len(live[c]) <= LiveCap

\* C1 witness: v1 inserted a candidate into a full list and the oldest
\* article left it
V1CapEvicted ==
    /\ curator = "v1"
    /\ result.kind \in {"LIVE", "LIVE + PICK"}
    /\ Len(live["science"]) = LiveCap
    /\ live["science"][1] = Candidate("science", 1)
    /\ Filler("science", LiveCap).url \notin Urls(live["science"])

\* C2: under telegram_curator_v2.py every category's live list holds at most
\* 15 articles, whatever callbacks were handled
V2LiveListsWithinCap ==
    curator = "v2" => \A c \in Categories : Len(live[c]) <= LiveCap

\* C3: an approve handled right after the same approve returns "Already live"
\* and leaves the live lists, the pick, lastUpdated and the archive as they
\* were
ApproveTwiceIsNoOp ==
    [][(ApproveStep /\ lastCall'.repeated) =>
            /\ result'.kind = "Already live"
            /\ feed' = feed
            /\ archive' = archive]_vars

\* C3 witness: the same approve was handled twice in a row
ApprovedTwice == lastCall.repeated /\ result.kind = "Already live"

\* C4: no live list holds two entries with one url
NoRepeatedUrl ==
    \A c \in Categories : Cardinality(Urls(live[c])) = Len(live[c])

\* C5: after an approve has set the pick today, an approve does not change
\* the pick
ApproveKeepsApprovePick ==
    [][(ApproveStep /\ "approve" \in pickSetBy) =>
            editorsPick' = editorsPick]_vars

\* C5 witness: an approve set the pick today and a later approve went live
\* without taking it
LaterApproveKeptPick == "approve" \in pickSetBy /\ result.kind = "LIVE"

\* C6: after a pick callback has set the pick today, an approve does not
\* change the pick
ApproveKeepsExplicitPick ==
    [][(ApproveStep /\ "pick" \in pickSetBy) =>
            editorsPick' = editorsPick]_vars

\* C7: an approve that inserts its candidate while lastUpdated is not today
\* or no pick is set makes the candidate the pick and sets lastUpdated to
\* today
ApprovePromotesWhenStale ==
    [][(/\ ApproveStep
        /\ live' # live
        /\ (lastUpdated # today \/ editorsPick = NoPick)) =>
            /\ editorsPick'.url = ApprovedCandidate.url
            /\ lastUpdated' = today]_vars

\* C7 witness: an approve made its candidate the pick of today
ApprovePromoted ==
    /\ result.kind = "LIVE + PICK"
    /\ lastCall # NoCall
    /\ editorsPick.url = PyIndex(pending[lastCall.category], lastCall.index).url
    /\ lastUpdated = today

\* C8: no step removes a url from the archive
ArchiveUrlsNeverShrink == [][DOMAIN archive \subseteq DOMAIN archive']_vars

\* C8 witness: the oldest article has left the live list by cap eviction or
\* cleanup, a candidate has left it by a reject, and both are in the archive
ArchivedButNotLive ==
    /\ Filler("science", LiveCap).url \in DOMAIN archive \ LiveUrls
    /\ \E k \in 1..NumCand :
        Candidate("science", k).url \in DOMAIN archive \ LiveUrls

\* C9: no step changes an archive entry that exists
ArchiveEntriesImmutable ==
    [][\A u \in DOMAIN archive :
            u \in DOMAIN archive' => archive'[u] = archive[u]]_vars

KeepsOrder(old, new) ==
    LET inOld == {old[k] : k \in DOMAIN old}
        inNew == {new[k] : k \in DOMAIN new}
    IN SelectSeq(old, LAMBDA a : a \in inNew)
            = SelectSeq(new, LAMBDA a : a \in inOld)

\* C11: a v1 approve that is not "Already live" puts its candidate at the
\* head of the category's list, followed by the articles that were live, in
\* their order, less the last one when the list held 15; and no v1 step
\* changes the relative order of the articles that stay in a list
V1ApproveInsertsAtHead ==
    /\ [][(curator = "v1" /\ ApproveStep /\ result'.kind # "Already live") =>
            LET old == live[acted'.category]
                new == live'[acted'.category]
            IN /\ new[1] = ApprovedCandidate
               /\ Len(new) = IF Len(old) < LiveCap THEN Len(old) + 1 ELSE LiveCap
               /\ SubSeq(new, 2, Len(new)) = SubSeq(old, 1, Len(new) - 1)]_vars
    /\ [][curator = "v1" =>
            \A c \in Categories :
                live'[c] = live[c] \/ KeepsOrder(live[c], live'[c])]_vars

\* C11 witness: v1 approved candidate 1 and then candidate 2 into the full
\* science list, and the two oldest articles are gone
V1NewestFirst ==
    /\ curator = "v1"
    /\ acted.action = "approve"
    /\ result.kind \in {"LIVE", "LIVE + PICK"}
    /\ Len(live["science"]) = LiveCap
    /\ live["science"][1] = Candidate("science", 2)
    /\ live["science"][2] = Candidate("science", 1)
    /\ live["science"][LiveCap] = Filler("science", LiveCap - 2)

\* a step of handle_callback's reject branch
RejectStep == result = NoResult /\ acted'.action = "reject"

\* the url of the candidate the callback in acted' names
ActedUrl == PyIndex(pending[acted'.category], acted'.index).url

\* C12: a reject of a candidate whose url is not in its category's live list
\* returns "Removed" and leaves the live lists, the pick, lastUpdated and the
\* archive as they were
RejectNotLiveIsNoOp ==
    [][(RejectStep /\ ActedUrl \notin Urls(live[acted'.category])) =>
            /\ result'.kind = "Removed"
            /\ feed' = feed
            /\ archive' = archive]_vars

\* C12 witness: a candidate that never was live (it has no archive row) was
\* rejected, next to a non-empty list
RejectedNeverLive ==
    /\ acted.action = "reject"
    /\ result.kind = "Removed"
    /\ live[acted.category] # <<>>
    /\ LET u == PyIndex(pending[acted.category], acted.index).url
       IN u \notin DOMAIN archive /\ u \notin Urls(live[acted.category])

\* C13: a reject of a live candidate leaves in its category's list exactly
\* the entries with another url, in their order, and leaves the lists of the
\* other categories and the archive as they were
RejectRemovesEveryEntry ==
    [][(RejectStep /\ ActedUrl \in Urls(live[acted'.category])) =>
            LET old == live[acted'.category]
                new == live'[acted'.category]
                gone == {k \in DOMAIN old : old[k].url = ActedUrl}
            IN /\ ActedUrl \notin Urls(new)
               /\ Len(new) = Len(old) - Cardinality(gone)
               /\ {new[k] : k \in DOMAIN new} \subseteq {old[m] : m \in DOMAIN old}
               /\ KeepsOrder(old, new)
               /\ \A c \in Categories \ {acted'.category} : live'[c] = live[c]
               /\ archive' = archive]_vars

\* C13 witness: candidate 1 went into the full science list, pushing the
\* oldest article out, and a reject took it out again
RejectedLive ==
    /\ acted = Callback("reject", "science", 0)
    /\ result.kind = "Removed"
    /\ Candidate("science", 1).url \in DOMAIN archive
    /\ Len(live["science"]) = LiveCap - 1
    /\ live["science"][1] = Filler("science", 1)
    /\ Filler("science", LiveCap).url \notin Urls(live["science"])

\* index is a position of the category's pending list
ValidPosition(category, index) ==
    /\ category \in DOMAIN pending
    /\ 0 <= index /\ index < Len(pending[category])

\* C14: a callback whose category is no key of the pending store or whose
\* index is no position 0..len-1 of the category's list returns "Article not
\* found" and changes neither feed nor archive: it reaches no approve, reject
\* or pick branch, it raises no exception, and the "Article not found" return
\* writes nothing
InvalidCallbackNotFound ==
    /\ [][(result = NoResult /\ acted' # NoCallback) =>
            ValidPosition(acted'.category, acted'.index)]_vars
    /\ [](result.kind # "exception")
    /\ [][result'.kind = "Article not found" =>
            feed' = feed /\ archive' = archive]_vars

\* C15: a candidate is consumed by the callback applied to it; here for a
\* candidate consumed by an approve: the approve, reject or pick handled next
\* for the same category and index changes neither feed nor archive
CandidateConsumedOnce ==
    [][(/\ result = NoResult
        /\ lastCall # NoCall
        /\ ValidPosition(lastCall.category, lastCall.index)
        /\ acted'.category = lastCall.category
        /\ acted'.index = lastCall.index) =>
            feed' = feed /\ archive' = archive]_vars

\* C16: the ledger holds at most one row per url, no row ever changes or
\* leaves, and mark_article_seen on a url that has a row changes nothing
LedgerOneRowPerUrl ==
    /\ [](\A r1, r2 \in ledger : r1.url = r2.url => r1 = r2)
    /\ [][\A r \in ledger : r \in ledger']_vars
    /\ [][(lastMark' # lastMark /\ IsArticleSeen(ledger, lastMark'.url)) =>
            ledger' = ledger]_vars

\* C16 witness: mark_article_seen was called, at a later time, with another
\* headline and category for a url that has a row, and the row is as it was
MarkedSeenTwice ==
    \E r \in ledger :
        /\ r.url = lastMark.url
        /\ r.headline # lastMark.headline
        /\ r.category # lastMark.category
        /\ r.first_seen < runs

\* C17: what a run writes to the pending store holds no url that an earlier
\* run wrote to it
NeverStagedAgain ==
    \A c \in Categories : Urls(pendingData[c]) \cap stagedBefore = {}

\* C17 witness: a later run collected a url an earlier run had staged,
\* under another headline, and has staged what it selected without that url
ReturnedAgainNotStaged ==
    /\ phase = "stage"
    /\ AllStaged
    /\ \E c \in Categories : pendingData[c] # <<>>
    /\ \E c \in Categories : \E k \in DOMAIN candidates[c] :
        /\ candidates[c][k].url \in stagedBefore
        /\ \E r \in ledger :
            /\ r.url = candidates[c][k].url
            /\ r.headline # candidates[c][k].headline

\* the places <<category, position>> of the candidates with url u
CandidatePlaces(u) ==
    {<<c, k>> \in Categories \X (1..MaxEntries) :
        k \in DOMAIN candidates[c] /\ candidates[c][k].url = u}

\* collect_all_feeds met the candidate at place p before the one at place q:
\* it reads the listings in their order and appends in the order of reading
MetBefore(p, q) ==
    LET lp == ListingPosition(candidates[p[1]][p[2]].source)
        lq == ListingPosition(candidates[q[1]][q[2]].source)
    IN lp < lq \/ (lp = lq /\ p[2] < q[2])

\* the places of the pending store being built that hold url u
StagedPlaces(u) ==
    {<<c, k>> \in Categories \X (1..MaxEntries) :
        k \in DOMAIN pendingData[c] /\ pendingData[c][k].url = u}

\* C18: when a run has staged its selection, every url it collected that no
\* earlier run had marked seen is in the pending store once, as the
\* candidate with that url that was met first and under its category
FirstMetIsStaged ==
    (phase = "stage" /\ AllStaged) =>
        \A u \in FeedUrls :
            (/\ CandidatePlaces(u) # {}
             /\ \A r \in ledger : r.url = u => r.first_seen = runs) =>
                \E p \in CandidatePlaces(u) :
                    /\ \A q \in CandidatePlaces(u) \ {p} : MetBefore(p, q)
                    /\ Cardinality(StagedPlaces(u)) = 1
                    /\ \E sp \in StagedPlaces(u) :
                        /\ sp[1] = p[1]
                        /\ pendingData[sp[1]][sp[2]] =
                                Pick(candidates[p[1]][p[2]])

\* the urls of the rows of the seen-ledger
LedgerUrls(rows) == {r.url : r \in rows}

\* C19: a step that adds a url to the seen-ledger adds only urls that the
\* run's selection already holds
MarkedOnlyAfterSelected ==
    [][\A u \in LedgerUrls(ledger') \ LedgerUrls(ledger) :
            \E c \in Categories : u \in Urls(selected[c])]_vars

\* an earlier candidate of the run has the headline of entry e, up to case,
\* and a url that is not in the seen-ledger
UnseenHeadlineTwin(e) ==
    \E c \in Categories : \E k \in DOMAIN candidates[c] :
        /\ Lower(candidates[c][k].headline) = Lower(e.headline)
        /\ ~IsArticleSeen(ledger, candidates[c][k].url)

\* C20: an entry that passes the age test, whose url is not in the
\* seen-ledger and whose headline no earlier candidate with an unseen url
\* has, becomes a candidate of the run
SeenUrlDoesNotBlock ==
    [][\A e \in Entries :
            (/\ FetchEntry(e)
             /\ FetchKeeps(e, today)
             /\ ~IsArticleSeen(ledger, e.url)
             /\ ~UnseenHeadlineTwin(e)) =>
                candidates'[ListingCategory(e.listing)] =
                    Append(candidates[ListingCategory(e.listing)],
                           FeedArticle(e))]_vars

\* the places <<category, position>> of the pending store being built
PendingPlaces ==
    {<<c, k>> \in Categories \X (1..MaxEntries) : k \in DOMAIN pendingData[c]}

\* C21: no two candidates a run writes to the pending store, in one category
\* or in two, have headlines that are equal after lower-casing and trimming
NoHeadlineTwicePending ==
    \A p, q \in PendingPlaces :
        p # q => Lower(pendingData[p[1]][p[2]].headline) #
                 Lower(pendingData[q[1]][q[2]].headline)

\* C21 witness: a run has staged a Hacker News story whose title is not
\* trimmed beside an article of a feed of the other category
StagedFeedAndStory ==
    /\ phase = "stage"
    /\ AllStaged
    /\ \E k \in DOMAIN pendingData["science"] :
        /\ pendingData["science"][k].source = "Hacker News"
        /\ pendingData["science"][k].headline = "QUANTUM MINDS "
    /\ pendingData["philosophy"] # <<>>

\* C22: every candidate a run writes to the pending store was collected
\* with no publication day or with one inside the max-age window of the run
StagedWithinMaxAge ==
    \A c \in Categories : \A k \in DOMAIN pendingData[c] :
        \A j \in DOMAIN candidates[c] :
            Pick(candidates[c][j]) = pendingData[c][k] =>
                \/ candidates[c][j].published = NoDate
                \/ candidates[c][j].published >= today - MaxAgeDays

\* the candidate is the one main found unseen and marked in this run
MarkedThisRun(c, article) ==
    \E r \in ledger :
        /\ r.url = article.url
        /\ r.headline = article.headline
        /\ r.category = c
        /\ r.first_seen = runs

\* the entries whose feed gave no published_parsed
UndatedEntries == {e \in Entries : e.published = NoDate}

\* C23: a feed entry without a date whose headline the run has not met
\* becomes a candidate, and a candidate without a date that main marks is
\* in the pending store once the run has staged its selection
UndatedIsKept ==
    /\ [][fetched' # fetched =>
            \A e \in UndatedEntries :
                (/\ Lower(e.headline) \notin seenHeadlines
                 /\ FetchEntry(e)) =>
                    candidates'[ListingCategory(e.listing)] =
                        Append(candidates[ListingCategory(e.listing)],
                               FeedArticle(e))]_vars
    /\ [](phase = "stage" /\ AllStaged =>
            \A c \in Categories : \A j \in DOMAIN candidates[c] :
                (/\ candidates[c][j].published = NoDate
                 /\ MarkedThisRun(c, candidates[c][j])) =>
                    \E k \in DOMAIN pendingData[c] :
                        pendingData[c][k] = Pick(candidates[c][j]))

\* C23 witness: a run has staged an article of a feed that has no date
UndatedStaged ==
    /\ phase = "stage"
    /\ AllStaged
    /\ \E c \in Categories : \E j \in DOMAIN candidates[c] :
        /\ candidates[c][j].published = NoDate
        /\ candidates[c][j].source # "Hacker News"
        /\ \E k \in DOMAIN pendingData[c] :
            pendingData[c][k] = Pick(candidates[c][j])

\* an earlier candidate of the run has the headline of entry e, up to case,
\* and comes from a listing whose fetch did not raise
HeadlineTwinNotFailed(e) ==
    \E c \in Categories : \E k \in DOMAIN candidates[c] :
        /\ Lower(candidates[c][k].headline) = Lower(e.headline)
        /\ candidates[c][k].source \notin failed

\* C24: an entry that passes the age test and whose headline no earlier
\* candidate of a listing that did not fail has, becomes a candidate, as in
\* a run where the failing listings returned nothing
FailedFeedLeavesOthers ==
    [][\A e \in Entries :
            (/\ FetchEntry(e)
             /\ FetchKeeps(e, today)
             /\ ~HeadlineTwinNotFailed(e)) =>
                candidates'[ListingCategory(e.listing)] =
                    Append(candidates[ListingCategory(e.listing)],
                           FeedArticle(e))]_vars

\* a step of an approve, reject or pick branch that sets changed = True
ChangedStep ==
    /\ result = NoResult
    /\ acted' # NoCallback
    /\ result'.kind # "Already live"

\* C25: a callback that changes the feed returns its result with the push
\* reported as done or as pending, never an error, and when the push failed
\* the change is in the feed and the archive: the approved article is live
\* and archived, the rejected url is gone, the picked article is the pick
PushFailureIsPending ==
    [][ChangedStep =>
            /\ result'.kind \in {"LIVE", "LIVE + PICK", "Removed", "PICK"}
            /\ result'.push \in {"pushed", "push pending"}
            /\ result'.push = "push pending" =>
                /\ acted'.action = "approve" =>
                    /\ ActedUrl \in Urls(live'[acted'.category])
                    /\ ActedUrl \in DOMAIN archive'
                /\ acted'.action = "reject" =>
                    /\ ActedUrl \notin Urls(live'[acted'.category])
                    /\ archive' = archive
                /\ acted'.action = "pick" =>
                    /\ editorsPick'.url = ActedUrl
                    /\ ActedUrl \in Urls(live'[acted'.category])
                    /\ ActedUrl \in DOMAIN archive']_vars

\* C25 witness: an approve put a candidate into the live list and the
\* archive, and its push failed
ApprovedPushPending ==
    /\ result.push = "push pending"
    /\ acted.action = "approve"
    /\ LET url == PyIndex(pending[acted.category], acted.index).url
       IN /\ url \in Urls(live[acted.category])
          /\ url \in DOMAIN archive

\* C26: articles.json always holds a whole feed, the one before a write or
\* the one after it
FileAlwaysWhole == ~torn

\* the step is the write of a process that handles a reject of url u in
\* category c
RejectWrites(c, u) ==
    \E p \in Processes :
        /\ loaded[p].opened
        /\ loaded'[p] = NoLoad
        /\ loaded[p].action = "reject"
        /\ loaded[p].category = c
        /\ PyIndex(pending[c], loaded[p].index).url = u

\* C27: no write of articles.json loses the update of another callback: an
\* article leaves a live list only by the write of a reject of its url
NoUpdateLost ==
    [][\A c \in Categories : \A u \in Urls(live[c]) \ Urls(live'[c]) :
            RejectWrites(c, u)]_vars

\* the cut after position n of a clean text falls inside a word
InsideWord(clean, n) ==
    /\ n >= 1 /\ n < Len(clean)
    /\ clean[n] # " "
    /\ clean[n + 1] # " "

\* C28: truncate_teaser returns the cleaned text when it has at most max_len
\* characters, and otherwise a prefix of it of at most max_len characters
\* that does not end inside a word, followed by "..."
TeaserEndsAtWord ==
    teaser # NoTeaser =>
        LET clean == CleanChars(rawText)
        IN IF Len(clean) <= maxLen THEN teaser = clean
           ELSE \E n \in 0..maxLen :
                    /\ teaser = SubSeq(clean, 1, n) \o Ellipsis
                    /\ ~InsideWord(clean, n)

\* C29 as stated: no candidate the depth gate hands on has a word count
\* below its category's minimum
NoneBelowCategoryMin ==
    depthOut.ran =>
        \A k \in DOMAIN depthOut.kept :
            depthOut.kept[k].word_count >= CategoryMinWords(depthCategory)

\* C29: no candidate the depth gate hands on has a word count below the
\* threshold that applies to it, its domain's override when one is
\* configured and else its category's minimum, whatever its base score
NoneBelowThreshold ==
    depthOut.ran =>
        \A k \in DOMAIN depthOut.kept :
            depthOut.kept[k].word_count >=
                Threshold(depthCategory, depthOut.kept[k].domain)

\* C29 witness: the candidate with the highest base score of its category
\* has 450 words against a minimum of 600 and is dropped, and a candidate
\* with a lower base score is handed on
TopScoredDropped ==
    /\ depthOut.ran
    /\ depthOut.kept # <<>>
    /\ depthCategory = "philosophy"
    /\ \E k \in DOMAIN scored :
        /\ \A m \in DOMAIN scored \ {k} :
                scored[m].base_score < scored[k].base_score
        /\ scored[k].word_count = 450
        /\ Threshold(depthCategory, scored[k].domain) = 600
        /\ \A m \in DOMAIN depthOut.kept :
                depthOut.kept[m].url # scored[k].url

\* the editor's pick is null or an article whose url is in a live list
PickIsLive == editorsPick = NoPick \/ editorsPick.url \in LiveUrls

\* C30: from a feed whose pick is null or live, no callback for a position
\* of the pending store, no cap eviction and no cleanup leads to a feed
\* whose pick is an article that is not live
PickStaysLive ==
    [][(/\ PickIsLive
        /\ acted' # NoCallback =>
                ValidPosition(acted'.category, acted'.index)) =>
            PickIsLive']_vars

\* C31: whenever handle_callback finds an article for the callback data of a
\* review message in the chat, it is the article the message shows
CallbackActsOnShown ==
    \A m \in sent :
        Found(m.category, m.index) =>
            PyIndex(pending[m.category], m.index) = m.article

\* C32: from the moment the collector has sent a review message until its
\* next run starts, the pending store holds the message's article at the
\* message's category and index, and so does the run's pending_data while
\* the run stages
SentIsStaged ==
    \A m \in sent :
        m.run = runs =>
            /\ Found(m.category, m.index)
            /\ PyIndex(pending[m.category], m.index) = m.article
            /\ phase = "stage" =>
                    PyIndex(pendingData[m.category], m.index) = m.article

\* C32 witness: the run has not yet finished and has sent the message of
\* the second article of a category
SecondArticleSent ==
    /\ phase = "stage"
    /\ \E m \in sent : m.run = runs /\ m.index = 1

\* every article collect_all_feeds returned has a row in the ledger
AllCollectedSeen ==
    \A c \in Categories : \A k \in DOMAIN candidates[c] :
        \E r \in ledger : r.url = candidates[c][k].url

\* C33: while a run collects, the pending store, the chat and the ledger
\* stay as they are; and when every article it collected is in the ledger,
\* main returns from the filter with the three still as they were
SeenOnlyRunIsNoOp ==
    /\ [][phase = "collect" =>
            pending' = pending /\ sent' = sent /\ ledger' = ledger]_vars
    /\ [][(phase = "filter" /\ AllCollectedSeen) =>
            /\ phase' = "idle"
            /\ pending' = pending
            /\ sent' = sent
            /\ ledger' = ledger]_vars

\* C33 witness: the second run has collected articles, all of them marked
\* by the first run, and stands at the filter with the first run's
\* articles in the pending store
SecondRunMetOnlySeen ==
    /\ phase = "filter"
    /\ runs = 2
    /\ \E c \in Categories : candidates[c] # <<>>
    /\ AllCollectedSeen
    /\ \E c \in Categories : pending[c] # <<>>

\* approved before the cutoff
ApprovedBefore(article, cutoff) ==
    article.approvedDate # NoDate /\ article.approvedDate < cutoff

\* the places of the live lists whose article was approved before the cutoff
OldPlaces(cutoff) ==
    {p \in Categories \X (1..(LiveCap + NumCand)) :
        /\ p[2] \in DOMAIN live[p[1]]
        /\ ApprovedBefore(live[p[1]][p[2]], cutoff)}

\* C35: cleanup_old_articles leaves in every live list the articles without
\* approvedDate and those approved on or after today - 7, in their order,
\* and no other; it returns the number of articles it removed; the archive,
\* the editor's pick and lastUpdated stay as they were
CleanupRemovesOnlyOld ==
    [][(result' = result /\ today' = today /\ CleanupOldArticles) =>
        LET cutoff == today - RetentionDays
        IN /\ \A c \in Categories :
                /\ \A k \in DOMAIN live[c] :
                        ApprovedBefore(live[c][k], cutoff) <=>
                            live[c][k] \notin {live'[c][m] : m \in DOMAIN live'[c]}
                /\ \A m \in DOMAIN live'[c] :
                        \E k \in DOMAIN live[c] : live[c][k] = live'[c][m]
                /\ KeepsOrder(live[c], live'[c])
                /\ Len(live'[c]) = Len(live[c]) -
                        Cardinality({p \in OldPlaces(cutoff) : p[1] = c})
           /\ CleanupRemoved(live, cutoff, Categories) =
                    Cardinality(OldPlaces(cutoff))
           /\ archive' = archive
           /\ editorsPick' = editorsPick
           /\ lastUpdated' = lastUpdated]_vars

\* C35 witness: the v2 curator's cleanup took the oldest science article,
\* approved eight days ago, off the live list; the undated and the recent
\* articles are still there, and so is the oldest one's archive row
OldestCleanedUp ==
    /\ curator = "v2"
    /\ ~startedEmpty
    /\ Filler("science", LiveCap).url \notin Urls(live["science"])
    /\ Filler("science", LiveCap).url \in DOMAIN archive
    /\ \E k \in DOMAIN live["science"] : live["science"][k] = Filler("science", 2)
    /\ \E k \in DOMAIN live["science"] : live["science"][k] = Filler("science", 3)

MinOf(a, b) == IF a <= b THEN a ELSE b

PublishKeepsLive ==
    [][PublishApproved =>
        /\ \A c \in Categories : \A k \in DOMAIN live[c] :
                \E m \in DOMAIN live'[c] : live'[c][m] = live[c][k]
        /\ (\A c \in Categories : approvedFile.lists[c] = <<>>) =>
                feed' = feed]_vars

\* the update_ids the for loop has still to reach
BatchIds == {batch[k] : k \in DOMAIN batch}

\* C34: the offset is past an update while the update is handled; no update
\* is handled twice, and none that was handled is fetched again, whether its
\* handling raised or not; and every update Telegram has received is
\* eventually handled
UpdatesHandledOnce ==
    /\ [](current # NoUpdate => offset > current)
    /\ [](\A k \in DOMAIN updates : handledTimes[k] <= 1)
    /\ [](\A k \in BatchIds : handledTimes[k] = 0)
    /\ \A k \in 1..MaxUpdates :
            (Len(updates) >= k) ~>
                (Len(updates) >= k /\ handledTimes[k] = 1 /\ current # k)

\* C34 witness: the handling of the first update raised, and the loop has
\* handled the update that came after it
HandledAfterException ==
    /\ Len(updates) = 2
    /\ updates[1].index < 0
    /\ handledTimes = <<1, 1>>
    /\ current = NoUpdate
    /\ offset = 3

====
